---------------------------- MODULE Spec2Model ----------------------------
(***************************************************************************)
(* Finding normalisation and pass/fail evaluation of the automated         *)
(* reasoning checks demo.                                                  *)
(*                                                                         *)
(*   src/utils/automated_reasoning_common.py                               *)
(*       extract_automated_reasoning_results, _parse_finding, TestResult   *)
(*   src/automated-reasoning-checks-demo-static.py                         *)
(*       TestCase, AutomatedReasoningTester, main                          *)
(*                                                                         *)
(* Python values are modelled as follows.  A dict is a function whose      *)
(* DOMAIN is its key set (the empty dict is the empty function), a list is *)
(* a sequence, None is the value None below, and an exception is the name  *)
(* of its class in the variable exc (NoExc when nothing was raised).       *)
(***************************************************************************)
EXTENDS Integers, Sequences, FiniteSets, TLC

VARIABLES
    pc,               \* position of the call being followed
    finding,          \* _parse_finding: its argument
    parsed,           \* _parse_finding: its return value
    response,         \* extract_automated_reasoning_results: its argument
    findings,         \* extract_automated_reasoning_results: its return value
    exc,              \* exception that left the call, NoExc when none did
    actual_result,    \* _evaluate_test_result: its first argument
    expected_result,  \* _evaluate_test_result: its second argument
    test_passed,      \* _evaluate_test_result: its return value
    args_test,        \* main: args.test, <<>> when --test is not given, else <<N>>
    test_cases_data,  \* main: the test cases loaded from the JSON file
    test_cases,       \* main: the TestCase objects built from test_cases_data
    results,          \* main / run_all_tests: the results dict
    requests,         \* the requests sent to bedrock_runtime.apply_guardrail
    exit_code,        \* <<>> while the process runs, else <<its exit status>>
    loaded,           \* main: what load_test_cases returned, kept for reference
    responses,        \* what apply_guardrail returned, one entry for each test run
    response_at_call, \* a deep copy of response taken when the call was made
    calls,            \* concurrent calls: the frame of each call site
    started,          \* concurrent calls: how many calls were started so far
    completed,        \* concurrent calls: the [response, returned] of ended calls
    conversation_history,      \* chat: self.conversation_history
    refund_policy_text,        \* chat: self.refund_policy_text
    user_message,              \* chat: the message of the turn being processed
    input_guardrail_response,  \* chat_with_model: its local of that name
    completion,                \* chat_with_model: what the model call returned
    output_guardrail_response, \* chat_with_model: its local of that name
    chat_response,             \* what chat_with_model returned for the turn
    events,                    \* the remote calls of the turn so far, in order
    turns,                     \* the turns processed since the history was last empty
    turns_done                 \* how many turns the session has processed

parseVars == <<finding, parsed>>
extractVars == <<response, findings>>
evaluateVars == <<actual_result, expected_result, test_passed>>

mainVars ==
    <<args_test, test_cases_data, test_cases, results, requests, exit_code, loaded, responses>>
frameVars == <<response_at_call>>
callsVars == <<calls, started, completed>>
chatVars ==
    <<conversation_history, refund_policy_text, user_message, input_guardrail_response,
      completion, output_guardrail_response, chat_response, events, turns, turns_done>>

vars ==
    <<pc, exc, parseVars, extractVars, evaluateVars, mainVars, frameVars, callsVars, chatVars>>

-----------------------------------------------------------------------------
(* Python values *)

None == "<None>"
NoExc == "<no exception>"
Idle == "<not used>"
EmptyDict == [k \in {} |-> TRUE]

\* k in d
In(k, d) == k \in DOMAIN d

\* d.get(k, default): never raises
Get(d, k, default) == IF k \in DOMAIN d THEN d[k] ELSE default

\* all lists over S of length at most n
ListsUpTo(S, n) == UNION { [1..m -> S] : m \in 0..n }

\* all dicts whose keys are a subset of keys and whose values lie in vals
DictsOver(keys, vals) == UNION { [D -> vals] : D \in SUBSET keys }

\* the concatenation of a list of lists
RECURSIVE Flatten(_)
Flatten(seqs) == IF seqs = <<>> THEN <<>> ELSE Head(seqs) \o Flatten(Tail(seqs))

-----------------------------------------------------------------------------
(* Bounds of the input domains *)

MaxRules == 2

RuleRefs == { [identifier |-> "A"], [identifier |-> "B"], [identifier |-> "C"] }
RuleLists == ListsUpTo(RuleRefs, MaxRules)

ClassificationKeys == {"satisfiable", "valid", "invalid", "translationAmbiguous"}
RuleKeys == {"supportingRules", "contradictingRules"}

\* every finding payload of the shape contract: any subset of the four
\* classification keys (with a true or a false value) and of the two rule lists
ClassificationParts == DictsOver(ClassificationKeys, BOOLEAN)
RuleParts == DictsOver(RuleKeys, RuleLists)
IsFindingPayload(f) ==
    \E c \in ClassificationParts, r \in RuleParts : f = c @@ r

-----------------------------------------------------------------------------
(* src/utils/automated_reasoning_common.py: _parse_finding *)

\* faulty variant: classification by the truth of the value, d.get(k), not by presence
ParseResultByValue(f) ==
    IF Get(f, "satisfiable", FALSE) THEN "SATISFIABLE"
    ELSE IF Get(f, "valid", FALSE) THEN "VALID"
    ELSE IF Get(f, "invalid", FALSE) THEN "INVALID"
    ELSE IF Get(f, "translationAmbiguous", FALSE) THEN "AMBIGUOUS"
    ELSE None

ParseResult(f) ==
    IF In("satisfiable", f) THEN "SATISFIABLE"
    ELSE IF In("valid", f) THEN "VALID"
    ELSE IF In("invalid", f) THEN "INVALID"
    ELSE IF In("translationAmbiguous", f) THEN "AMBIGUOUS"
    ELSE None

\* faulty variant: contradicting rules first
ParseRulesContradictingFirst(f) ==
    Get(f, "contradictingRules", <<>>) \o Get(f, "supportingRules", <<>>)

ParseRules(f) ==
    Get(f, "supportingRules", <<>>) \o Get(f, "contradictingRules", <<>>)

\* faulty variant: the raw finding keeps the classification keys only
ParseFindingClassificationOnly(f) ==
    [result |-> ParseResult(f),
     finding |-> [k \in DOMAIN f \cap ClassificationKeys |-> f[k]],
     rules |-> ParseRules(f)]

ParseFinding(f) ==
    [result |-> ParseResult(f), finding |-> f, rules |-> ParseRules(f)]

-----------------------------------------------------------------------------
(* Exceptions: an evaluation yields a value or raises *)

Ok(v) == [exc |-> NoExc, val |-> v]
Raise(e) == [exc |-> e, val |-> <<>>]

\* d[k]: KeyError when k is not a key of d
Subscript(d, k) == IF k \in DOMAIN d THEN Ok(d[k]) ELSE Raise("KeyError")

\* An insertion-ordered mapping (outputAssessments) is a list of
\* [key, value] items with distinct keys; m.values() lists the values in order.
DictValues(m) == [i \in 1..Len(m) |-> m[i].value]

-----------------------------------------------------------------------------
(* src/utils/automated_reasoning_common.py:                                *)
(* extract_automated_reasoning_results                                     *)

\* for finding in ...: findings.append(_parse_finding(finding))
RECURSIVE AppendParsed(_, _)
AppendParsed(acc, payloads) ==
    IF payloads = <<>> THEN acc
    ELSE AppendParsed(Append(acc, ParseFinding(Head(payloads))), Tail(payloads))

\* faulty variant: automated_reasoning_policy["findings"]
PolicyFindingsSubscript(policy) == Subscript(policy, "findings")

\* automated_reasoning_policy.get("findings", [])
PolicyFindings(policy) == Ok(Get(policy, "findings", <<>>))

\* if "automatedReasoningPolicy" in assessment
HasPolicy(assessment) == In("automatedReasoningPolicy", assessment)

\* faulty variant: each assessment's findings replace the list instead of extending it
ExtractAssessmentOverwrite(acc, assessment) ==
    IF HasPolicy(assessment)
    THEN LET policy == Subscript(assessment, "automatedReasoningPolicy")
         IN  IF policy.exc # NoExc THEN Raise(policy.exc)
             ELSE LET fs == PolicyFindings(policy.val)
                  IN  IF fs.exc # NoExc THEN Raise(fs.exc)
                      ELSE Ok(AppendParsed(<<>>, fs.val))
    ELSE Ok(acc)

\* the body of the loop over assessments: acc is the findings list so far
ExtractAssessment(acc, assessment) ==
    IF HasPolicy(assessment)
    THEN LET policy == Subscript(assessment, "automatedReasoningPolicy")
         IN  IF policy.exc # NoExc THEN Raise(policy.exc)
             ELSE LET fs == PolicyFindings(policy.val)
                  IN  IF fs.exc # NoExc THEN Raise(fs.exc)
                      ELSE Ok(AppendParsed(acc, fs.val))
    ELSE Ok(acc)

\* for assessment in assessments: ...
RECURSIVE ExtractAssessments(_, _)
ExtractAssessments(acc, assessments) ==
    IF assessments = <<>> THEN Ok(acc)
    ELSE LET r == ExtractAssessment(acc, Head(assessments))
         IN  IF r.exc # NoExc THEN r
             ELSE ExtractAssessments(r.val, Tail(assessments))

\* faulty variant: only the first value of the mapping is read
ExtractListsFirstOnly(acc, lists) ==
    IF lists = <<>> THEN Ok(acc) ELSE ExtractAssessments(acc, Head(lists))

\* for assessments_list in guardrail_trace["outputAssessments"].values(): ...
RECURSIVE ExtractLists(_, _)
ExtractLists(acc, lists) ==
    IF lists = <<>> THEN Ok(acc)
    ELSE LET r == ExtractAssessments(acc, Head(lists))
         IN  IF r.exc # NoExc THEN r
             ELSE ExtractLists(r.val, Tail(lists))

\* if "assessments" in response
IsDirect(resp) == In("assessments", resp)

\* the branch taken when "assessments" in response
ExtractDirect(resp) == ExtractAssessments(<<>>, Get(resp, "assessments", <<>>))

\* the branch guarded by "outputAssessments" in guardrail_trace
ExtractOutputAssessments(guardrail_trace) ==
    IF ~In("outputAssessments", guardrail_trace) THEN Ok(<<>>)
    ELSE LET oa == Subscript(guardrail_trace, "outputAssessments")
         IN  IF oa.exc # NoExc THEN Raise(oa.exc)
             ELSE ExtractLists(<<>>, DictValues(oa.val))

\* faulty variant: elif "trace" in response, without the test for "guardrail"
ExtractTraceUnguarded(resp) ==
    IF ~In("trace", resp) THEN Ok(<<>>)
    ELSE LET trace == Subscript(resp, "trace")
         IN  IF trace.exc # NoExc THEN Raise(trace.exc)
             ELSE LET guardrail_trace == Subscript(trace.val, "guardrail")
                  IN  IF guardrail_trace.exc # NoExc THEN Raise(guardrail_trace.exc)
                      ELSE ExtractOutputAssessments(guardrail_trace.val)

\* the elif branch: "trace" in response and "guardrail" in response["trace"]
ExtractTrace(resp) ==
    IF ~In("trace", resp) THEN Ok(<<>>)
    ELSE LET trace == Subscript(resp, "trace")
         IN  IF trace.exc # NoExc THEN Raise(trace.exc)
             ELSE IF ~In("guardrail", trace.val) THEN Ok(<<>>)
             ELSE LET guardrail_trace == Subscript(trace.val, "guardrail")
                  IN  IF guardrail_trace.exc # NoExc THEN Raise(guardrail_trace.exc)
                      ELSE ExtractOutputAssessments(guardrail_trace.val)

\* faulty variant: response["assessments"] is read without the test for the key
ExtractAssessmentsSubscript(resp) ==
    LET assessments == Subscript(resp, "assessments")
    IN  IF assessments.exc # NoExc THEN Raise(assessments.exc)
        ELSE ExtractAssessments(<<>>, assessments.val)

\* faulty variant: the second shape is tried with if, not elif
ExtractBothShapes(resp) ==
    LET d == IF IsDirect(resp) THEN ExtractDirect(resp) ELSE Ok(<<>>)
        t == ExtractTrace(resp)
    IN  IF d.exc # NoExc THEN d
        ELSE IF t.exc # NoExc THEN t
        ELSE Ok(d.val \o t.val)

ExtractAutomatedReasoningResults(resp) ==
    IF IsDirect(resp) THEN ExtractDirect(resp) ELSE ExtractTrace(resp)

-----------------------------------------------------------------------------
(* The objects of a call of extract_automated_reasoning_results.  Dicts    *)
(* and lists are objects: two names may hold the same object, and a change *)
(* made through one name is seen through the other.  An object of the      *)
(* response is named by its place in the response, an object made during   *)
(* the call is a new object.  Each operation gives the object it returns   *)
(* and the writes it makes to objects of the response.                     *)

\* the place of a finding payload: finding f of assessment a, under assessments
\* (m = 0) or under the m-th key of outputAssessments
PayloadPlace(m, a, f) == [m |-> m, a |-> a, f |-> f, key |-> "<payload>"]
\* the place of the list a payload holds under a key
ListPlace(at, key) == [at EXCEPT !.key = key]
NewObject == [m |-> 0 - 1, a |-> 0, f |-> 0, key |-> "<new>"]

\* a list: which object it is and the items it holds
ListObject(ref, items) == [ref |-> ref, items |-> items]

\* finding.get(key, []): the payload's own list, or a new empty list
GetList(f, at, key) ==
    IF In(key, f) THEN ListObject(ListPlace(at, key), f[key])
    ELSE ListObject(NewObject, <<>>)

\* faulty variant: left.extend(right), and left is the value
ListExtend(left, right) ==
    LET extended == ListObject(left.ref, left.items \o right.items)
    IN  [value |-> extended,
         writes |-> IF left.ref = NewObject THEN <<>> ELSE <<extended>>]

\* left + right: a new list, and neither operand is written
ListAdd(left, right) ==
    [value |-> ListObject(NewObject, left.items \o right.items), writes |-> <<>>]

\* _parse_finding on the payload f found at the place at: in the dict it
\* returns "finding" is the payload object itself and "rules" a list object
ParseFindingObject(f, at) ==
    LET rules == ListAdd(GetList(f, at, "supportingRules"),
                         GetList(f, at, "contradictingRules"))
    IN  [value |-> [result |-> ParseResult(f), finding |-> at, rules |-> rules.value],
         writes |-> rules.writes]

\* the places of the payloads the loops visit, in the order of the visits
PlacesOfAssessment(m, a, assessment) ==
    IF HasPolicy(assessment)
    THEN [f \in 1..Len(PolicyFindings(assessment["automatedReasoningPolicy"]).val)
              |-> PayloadPlace(m, a, f)]
    ELSE <<>>
PlacesOfAssessments(m, assessments) ==
    Flatten([a \in 1..Len(assessments) |-> PlacesOfAssessment(m, a, assessments[a])])
PlacesOfResponse(resp) ==
    IF IsDirect(resp) THEN PlacesOfAssessments(0, Get(resp, "assessments", <<>>))
    ELSE IF In("trace", resp) /\ In("guardrail", resp["trace"])
            /\ In("outputAssessments", resp["trace"]["guardrail"])
    THEN LET lists == DictValues(resp["trace"]["guardrail"]["outputAssessments"])
         IN  Flatten([m \in 1..Len(lists) |-> PlacesOfAssessments(m, lists[m])])
    ELSE <<>>

\* the payload found at a place of the response
PayloadAt(resp, at) ==
    IF at.m = 0
    THEN resp["assessments"][at.a]["automatedReasoningPolicy"]["findings"][at.f]
    ELSE resp["trace"]["guardrail"]["outputAssessments"][at.m].value[at.a]
             ["automatedReasoningPolicy"]["findings"][at.f]

\* the response after the list object w.ref was given the items w.items
WriteList(resp, w) ==
    IF w.ref.m = 0
    THEN [resp EXCEPT !["assessments"][w.ref.a]["automatedReasoningPolicy"]
                          ["findings"][w.ref.f][w.ref.key] = w.items]
    ELSE [resp EXCEPT !["trace"]["guardrail"]["outputAssessments"][w.ref.m].value
                          [w.ref.a]["automatedReasoningPolicy"]
                          ["findings"][w.ref.f][w.ref.key] = w.items]
RECURSIVE ApplyWrites(_, _)
ApplyWrites(resp, writes) ==
    IF writes = <<>> THEN resp
    ELSE ApplyWrites(WriteList(resp, Head(writes)), Tail(writes))

\* extract_automated_reasoning_results on the response object: the list it
\* returns and the writes it makes to the response
ExtractObjects(resp) ==
    LET places == PlacesOfResponse(resp)
        each == [k \in 1..Len(places) |->
                    ParseFindingObject(PayloadAt(resp, places[k]), places[k])]
    IN  [value |-> [k \in 1..Len(places) |-> each[k].value],
         writes |-> Flatten([k \in 1..Len(places) |-> each[k].writes])]

-----------------------------------------------------------------------------
(* Calls of extract_automated_reasoning_results from several call sites,   *)
(* followed step by step.  The frame of a call site holds the state of its *)
(* call, the response it was given, the number of payloads its loops have  *)
(* visited and its local list findings.                                    *)

CallSites == {"site-1", "site-2"}

\* the frame of a call site that has made no call yet
NoCall ==
    [state |-> "idle", response |-> EmptyDict, visited |-> 0, findings |-> <<>>,
     interleaved |-> FALSE]

\* faulty variant: the list of the site's previous call is used again
KeptFindings(previous) == previous

\* findings = []: a new list for each call
NewFindings(previous) == <<>>

\* faulty variant: findings is one list shared by the calls that are running
AppendToSharedFindings(frames, site, item) ==
    [q \in DOMAIN frames |->
        IF frames[q].state = "running"
        THEN [frames[q] EXCEPT !.findings = Append(@, item)]
        ELSE frames[q]]

\* findings.append(item) in the call of a site: its own list grows
AppendToFindings(frames, site, item) ==
    [frames EXCEPT ![site].findings = Append(@, item)]

\* the step of a call that visits its next payload:
\* findings.append(_parse_finding(finding))
VisitNext(frames, site) ==
    LET frame == frames[site]
        at == PlacesOfResponse(frame.response)[frame.visited + 1]
        item == ParseFinding(PayloadAt(frame.response, at))
        appended == AppendToFindings(frames, site, item)
    IN  [q \in DOMAIN frames |->
            IF q = site THEN [appended[q] EXCEPT !.visited = @ + 1]
            ELSE IF frames[q].state = "running"
                 THEN [appended[q] EXCEPT !.interleaved = TRUE]
                 ELSE appended[q]]

-----------------------------------------------------------------------------
(* Input domain of extract_automated_reasoning_results: the shape contract *)

MaxAssessments == 2
MaxFindings == 2
MaxTraceAssessments == 2
MaxTraceAssessmentsPerKey == 1
MaxTraceFindings == 2

P_VALID == [valid |-> TRUE, supportingRules |-> <<[identifier |-> "A"]>>]
P_AMBIGUOUS == [translationAmbiguous |-> TRUE]
P_INVALID == [invalid |-> TRUE, contradictingRules |-> <<[identifier |-> "C"]>>]

DirectPayloads == {P_VALID, P_AMBIGUOUS, EmptyDict}
TracePayloads == {P_AMBIGUOUS, P_VALID}

\* { automatedReasoningPolicy?: { findings?: list of payloads } }
Policies(P, nF) == {EmptyDict} \cup { [findings |-> fl] : fl \in ListsUpTo(P, nF) }
Assessments(P, nF) ==
    { [topicPolicy |-> EmptyDict] }
        \cup { [automatedReasoningPolicy |-> p] : p \in Policies(P, nF) }
AssessmentLists(P, nA, nF) == ListsUpTo(Assessments(P, nF), nA)

\* the keys of outputAssessments (guardrail identifiers)
AssessmentKeys == {"gr-1", "gr-2"}
KeyOrders ==
    { ks \in ListsUpTo(AssessmentKeys, Cardinality(AssessmentKeys)) :
        \A i, j \in 1..Len(ks) : i # j => ks[i] # ks[j] }
\* responses with neither shape, error responses included
OtherKeys ==
    { EmptyDict, [error |-> "ClientError"], [action |-> "NONE"],
      [action |-> "ERROR", error |-> "No content provided"] }
TracesWithoutOutputAssessments ==
    { EmptyDict, [guardrail |-> EmptyDict],
      [guardrail |-> [inputAssessment |-> EmptyDict]] }
NeitherResponses ==
    OtherKeys \cup { o @@ [trace |-> t] : o \in OtherKeys, t \in TracesWithoutOutputAssessments }

\* shape A: response.assessments
IsDirectResponse(r) ==
    \E n \in 0..MaxAssessments :
        \E al \in [1..n -> Assessments(DirectPayloads, MaxFindings)] :
            r = [assessments |-> al]

\* shape B: response.trace.guardrail.outputAssessments
\* a mapping with one key holds up to MaxTraceAssessments assessments, a
\* mapping with several keys up to MaxTraceAssessmentsPerKey under each key
TraceAssessmentLists(nKeys) ==
    AssessmentLists(TracePayloads,
                    IF nKeys <= 1 THEN MaxTraceAssessments ELSE MaxTraceAssessmentsPerKey,
                    MaxTraceFindings)
IsTraceResponse(r) ==
    \E ks \in KeyOrders :
        \E vs \in [1..Len(ks) -> TraceAssessmentLists(Len(ks))] :
            r = [trace |-> [guardrail |-> [outputAssessments |->
                    [i \in 1..Len(ks) |-> [key |-> ks[i], value |-> vs[i]]]]]]

\* both keys present: the trace carries findings that no assessments list holds
DecoyTraces ==
    { [guardrail |-> [outputAssessments |->
          << [key |-> "gr-1",
              value |-> << [automatedReasoningPolicy |-> [findings |-> <<P_INVALID>>]] >>] >>]],
      [guardrail |-> EmptyDict] }
IsBothResponse(r) ==
    \E n \in 0..MaxAssessments :
        \E al \in [1..n -> Assessments(DirectPayloads, MaxFindings)] :
            \E t \in DecoyTraces :
                r = [assessments |-> al, trace |-> t]

IsResponse(r) ==
    \/ r \in NeitherResponses
    \/ IsDirectResponse(r)
    \/ IsTraceResponse(r)
    \/ IsBothResponse(r)

\* the responses whose objects are followed: payloads with both rule lists,
\* with one of them and with none
P_RULES ==
    [valid |-> TRUE,
     supportingRules |-> <<[identifier |-> "A"], [identifier |-> "B"]>>,
     contradictingRules |-> <<[identifier |-> "C"]>>]
FrameDirectPayloads == {P_RULES, P_VALID, P_INVALID}
FrameTracePayloads == {P_RULES}
IsFrameResponse(r) ==
    \/ r \in NeitherResponses
    \/ \E n \in 0..MaxAssessments :
           \E al \in [1..n -> Assessments(FrameDirectPayloads, MaxFindings)] :
               r = [assessments |-> al]
    \/ \E ks \in KeyOrders :
           \E vs \in [1..Len(ks) ->
                         AssessmentLists(FrameTracePayloads,
                                         IF Len(ks) <= 1 THEN MaxTraceAssessments
                                         ELSE MaxTraceAssessmentsPerKey,
                                         MaxTraceFindings)] :
               r = [trace |-> [guardrail |-> [outputAssessments |->
                       [i \in 1..Len(ks) |-> [key |-> ks[i], value |-> vs[i]]]]]]

\* the responses given to concurrent calls: both shapes, the two orders of
\* the keys of a mapping, and an error response
MaxCalls == 3
R_DIRECT ==
    [assessments |->
        << [automatedReasoningPolicy |-> [findings |-> <<P_VALID, P_AMBIGUOUS>>]] >>]
R_DIRECT_TWO ==
    [assessments |->
        << [automatedReasoningPolicy |-> [findings |-> <<P_INVALID>>]],
           [topicPolicy |-> EmptyDict],
           [automatedReasoningPolicy |-> [findings |-> <<P_VALID>>]] >>]
TraceOf(k1, p1, k2, p2) ==
    [trace |-> [guardrail |-> [outputAssessments |->
        << [key |-> k1, value |-> << [automatedReasoningPolicy |-> [findings |-> <<p1>>]] >>],
           [key |-> k2, value |-> << [automatedReasoningPolicy |-> [findings |-> <<p2>>]] >>]
        >>]]]
CallResponses ==
    { R_DIRECT, R_DIRECT_TWO,
      TraceOf("gr-1", P_AMBIGUOUS, "gr-2", P_VALID),
      TraceOf("gr-2", P_VALID, "gr-1", P_AMBIGUOUS),
      [error |-> "ClientError"] }

-----------------------------------------------------------------------------
(* src/utils/automated_reasoning_common.py: class TestResult(Enum)         *)

\* the members of the enumeration, each with its name and its string value
TestResult ==
    { [name |-> "VALID", value |-> "VALID"],
      [name |-> "INVALID", value |-> "INVALID"],
      [name |-> "SATISFIABLE", value |-> "SATISFIABLE"] }

-----------------------------------------------------------------------------
(* src/automated-reasoning-checks-demo-static.py:                          *)
(* AutomatedReasoningTester._evaluate_test_result                          *)

\* not x, for x a string or None
Falsy(x) == x = None \/ x = ""

\* str.upper() on the strings of ActualResults
Upper(x) ==
    CASE x \in {"valid", "Valid"} -> "VALID"
      [] x \in {"invalid", "Invalid"} -> "INVALID"
      [] x \in {"satisfiable", "Satisfiable"} -> "SATISFIABLE"
      [] x = "ambiguous" -> "AMBIGUOUS"
      [] OTHER -> x

\* faulty variant: a missing actual result counts as a pass
EvaluateMissingPasses(actual, expected) ==
    IF Falsy(actual) THEN TRUE ELSE actual = expected.value

\* faulty variant: the comparison ignores case
EvaluateIgnoringCase(actual, expected) ==
    IF Falsy(actual) THEN FALSE ELSE Upper(actual) = expected.value

EvaluateTestResult(actual, expected) ==
    IF Falsy(actual) THEN FALSE ELSE actual = expected.value

\* the actual results the evaluation is tried on: absent, empty, the four
\* categories of _parse_finding, and strings that differ from a category in
\* case, in blanks or altogether
ActualResults ==
    { None, "", "VALID", "INVALID", "SATISFIABLE", "AMBIGUOUS",
      "valid", "invalid", "satisfiable", "ambiguous",
      "Valid", "Invalid", "Satisfiable",
      " VALID", "VALID ", "ERROR", "NONE", "IMPOSSIBLE", "TOO_COMPLEX",
      "NO_TRANSLATIONS", "TestResult.VALID" }

-----------------------------------------------------------------------------
(* src/automated-reasoning-checks-demo-static.py: TestCase *)

\* faulty variant: an unknown string falls back to a member instead of raising
TestResultOfLenient(s) ==
    IF \E m \in TestResult : m.value = s
    THEN Ok(CHOOSE m \in TestResult : m.value = s)
    ELSE Ok(CHOOSE m \in TestResult : m.name = "VALID")

\* TestResult(s): the member whose value is s, ValueError when there is none
TestResultOf(s) ==
    IF \E m \in TestResult : m.value = s
    THEN Ok(CHOOSE m \in TestResult : m.value = s)
    ELSE Raise("ValueError")

\* TestCase(**test_data): the dataclass constructor followed by __post_init__,
\* for test data whose expected_result is a string
NewTestCase(test_data) ==
    LET converted == TestResultOf(test_data["expected_result"])
    IN  IF converted.exc # NoExc THEN Raise(converted.exc)
        ELSE Ok([expected_result |-> converted.val,
                 question |-> Get(test_data, "question", None),
                 answer |-> Get(test_data, "answer", None)])

-----------------------------------------------------------------------------
(* src/automated-reasoning-checks-demo-static.py: AutomatedReasoningTester *)

\* faulty variant: the answer alone is sent with the qualifier guard_content
BuildContentQualifiedAnswer(question, answer) ==
    IF ~Falsy(question) /\ ~Falsy(answer)
    THEN << [text |-> [text |-> question, qualifiers |-> <<"query">>]],
            [text |-> [text |-> answer, qualifiers |-> <<"guard_content">>]] >>
    ELSE IF ~Falsy(answer)
    THEN << [text |-> [text |-> answer, qualifiers |-> <<"guard_content">>]] >>
    ELSE IF ~Falsy(question) THEN << [text |-> [text |-> question]] >>
    ELSE <<>>

\* apply_guardrail: the content list built from question and answer
BuildContent(question, answer) ==
    IF ~Falsy(question) /\ ~Falsy(answer)
    THEN << [text |-> [text |-> question, qualifiers |-> <<"query">>]],
            [text |-> [text |-> answer, qualifiers |-> <<"guard_content">>]] >>
    ELSE IF ~Falsy(answer) THEN << [text |-> [text |-> answer]] >>
    ELSE IF ~Falsy(question) THEN << [text |-> [text |-> question]] >>
    ELSE <<>>

\* faulty variant: the request is sent also when the content list is empty
ApplyGuardrailWithoutContentCheck(question, answer, service) ==
    LET content == BuildContent(question, answer)
        request == [source |-> "OUTPUT", content |-> content]
    IN  IF service.exc = "ClientError"
        THEN [response |-> [error |-> "ClientError"], sent |-> <<request>>]
        ELSE [response |-> service.val, sent |-> <<request>>]

\* apply_guardrail(question, answer); service is what the remote call does when
\* it is made: Ok(response) or Raise("ClientError").  The value has the
\* response returned and the requests sent to the remote service.
ApplyGuardrail(question, answer, service) ==
    LET content == BuildContent(question, answer)
        request == [source |-> "OUTPUT", content |-> content]
    IN  IF content = <<>>
        THEN [response |-> [action |-> "ERROR", error |-> "No content provided"],
              sent |-> <<>>]
        ELSE IF service.exc = "ClientError"
        THEN [response |-> [error |-> "ClientError"], sent |-> <<request>>]
        ELSE [response |-> service.val, sent |-> <<request>>]

\* faulty variant: the loop stops at the first finding
LoopActualResultFirst(actual, ar_findings) ==
    IF ar_findings = <<>> THEN actual
    ELSE Get(Head(ar_findings), "result", None)

\* run_test_case: actual_result after the loop over ar_findings
RECURSIVE LoopActualResult(_, _)
LoopActualResult(actual, ar_findings) ==
    IF ar_findings = <<>> THEN actual
    ELSE LoopActualResult(Get(Head(ar_findings), "result", None), Tail(ar_findings))

TestType(test_case) ==
    IF ~Falsy(test_case.question) /\ ~Falsy(test_case.answer) THEN "QUESTION_AND_ANSWER"
    ELSE IF ~Falsy(test_case.answer) THEN "ANSWER_ONLY"
    ELSE "QUESTION_ONLY"

\* run_test_case: content_summary, the pieces of the formatted string
ContentSummary(test_case) ==
    IF ~Falsy(test_case.question) /\ ~Falsy(test_case.answer)
    THEN <<"Q: ", test_case.question, " | A: ", test_case.answer>>
    ELSE IF ~Falsy(test_case.answer) THEN <<"A: ", test_case.answer>>
    ELSE <<"Q: ", test_case.question>>

\* run_test_case, from the response of apply_guardrail on
RunTestCase(test_case, resp) ==
    LET extracted == ExtractAutomatedReasoningResults(resp)
    IN  IF extracted.exc # NoExc THEN Raise(extracted.exc)
        ELSE
        LET ar_findings == extracted.val
            actual == LoopActualResult(None, ar_findings)
        IN  Ok([expected_result |-> test_case.expected_result.value,
                tests_run |-> << [type |-> TestType(test_case),
                                  content |-> ContentSummary(test_case),
                                  action |-> Get(resp, "action", "ERROR"),
                                  usage |-> Get(resp, "usage", EmptyDict),
                                  assessments |-> Get(resp, "assessments", <<>>),
                                  automated_reasoning_result |-> actual,
                                  automated_reasoning_findings |-> ar_findings] >>,
                overall_action |-> IF Falsy(actual) THEN "ERROR" ELSE actual,
                test_passed |-> EvaluateTestResult(actual, test_case.expected_result)])

\* faulty variant: a test that did not pass is appended but not counted
RecordTestResultPassedOnly(res, test_result) ==
    [res EXCEPT
        !.test_results = Append(@, test_result),
        !.passed = IF test_result.test_passed THEN @ + 1 ELSE @]

\* run_all_tests: the body of the loop after run_test_case returned
RecordTestResult(res, test_result) ==
    [res EXCEPT
        !.test_results = Append(@, test_result),
        !.passed = IF test_result.test_passed THEN @ + 1 ELSE @,
        !.failed = IF test_result.test_passed THEN @ ELSE @ + 1]

\* (passed / total_tests) * 100, kept as the exact fraction num / den
SuccessRate(passed, total_tests) ==
    IF total_tests > 0 THEN [num |-> passed * 100, den |-> total_tests]
    ELSE [num |-> 0, den |-> 1]

-----------------------------------------------------------------------------
(* src/automated-reasoning-checks-demo-static.py: main *)

\* if args.test: None and 0 are false
ArgsTestGiven(a) == a # <<>> /\ a[1] # 0

\* the loop that converts test_cases_data to TestCase objects
RECURSIVE ConvertTestCases(_, _)
ConvertTestCases(acc, data) ==
    IF data = <<>> THEN Ok(acc)
    ELSE LET tc == NewTestCase(Head(data))
         IN  IF tc.exc # NoExc THEN Raise(tc.exc)
             ELSE ConvertTestCases(Append(acc, tc.val), Tail(data))

-----------------------------------------------------------------------------
(* Input domain of main: the test cases file, --test, the remote service *)

MaxTests == 2

ExpectedStrings == {"VALID", "INVALID", "SATISFIABLE", "valid", "AMBIGUOUS"}
RecognizedStrings == { m.value : m \in TestResult }

TestContents ==
    { [question |-> "Q", answer |-> "A"], [answer |-> "A"], [question |-> "Q"], EmptyDict,
      [question |-> "", answer |-> ""] }
TestData == { [expected_result |-> e] @@ c : e \in ExpectedStrings, c \in TestContents }

ArgsTest == { <<>> } \cup { <<n>> : n \in -1..MaxTests + 1 }

P_SATISFIABLE == [satisfiable |-> TRUE]

ServiceResponse(payloads) ==
    [action |-> "NONE",
     assessments |-> << [automatedReasoningPolicy |-> [findings |-> payloads]] >>]

\* what a call of bedrock_runtime.apply_guardrail does
ServiceOutcomes ==
    { Ok(ServiceResponse(<<P_VALID>>)),
      Ok(ServiceResponse(<<P_VALID, P_INVALID>>)),
      Ok(ServiceResponse(<<P_SATISFIABLE, EmptyDict>>)),
      Ok([action |-> "GUARDRAIL_INTERVENED", assessments |-> << [topicPolicy |-> EmptyDict] >>]),
      Raise("ClientError") }

-----------------------------------------------------------------------------
(* src/automated-reasoning-checks-demo-with-openai.py:                     *)
(* InteractiveAutomatedReasoningTester                                     *)

\* a local of chat_with_model that was not assigned yet
Unset == "<unset>"

\* apply_guardrail: the content list; ValueError without question and answer
ChatBuildContent(question, answer) ==
    IF ~Falsy(question) /\ ~Falsy(answer)
    THEN Ok(<< [text |-> [text |-> question, qualifiers |-> <<"query">>]],
               [text |-> [text |-> answer, qualifiers |-> <<"guard_content">>]] >>)
    ELSE IF ~Falsy(answer) THEN Ok(<< [text |-> [text |-> answer]] >>)
    ELSE IF ~Falsy(question) THEN Ok(<< [text |-> [text |-> question]] >>)
    ELSE Raise("ValueError")

\* apply_guardrail(question, answer); service is what the remote call does when
\* it is made.  A ClientError becomes the response {"error": ...}, any other
\* exception leaves the call.  The value has what the call returned or raised
\* and the requests sent to the remote service.
ChatApplyGuardrail(question, answer, service) ==
    LET content == ChatBuildContent(question, answer)
        request == [source |-> IF ~Falsy(answer) THEN "OUTPUT" ELSE "INPUT",
                    content |-> content.val]
    IN  IF content.exc # NoExc THEN [returned |-> Raise(content.exc), sent |-> <<>>]
        ELSE IF service.exc = "ClientError"
        THEN [returned |-> Ok([error |-> "ClientError"]), sent |-> <<request>>]
        ELSE IF service.exc # NoExc
        THEN [returned |-> Raise(service.exc), sent |-> <<request>>]
        ELSE [returned |-> Ok(service.val), sent |-> <<request>>]

\* faulty variant: an intervention on the input does not end the turn
InputBlockedIgnored(guardrail_response) == FALSE

\* "action" in input_guardrail_response and
\* input_guardrail_response["action"] == "GUARDRAIL_INTERVENED"
InputBlocked(guardrail_response) ==
    /\ In("action", guardrail_response)
    /\ guardrail_response["action"] = "GUARDRAIL_INTERVENED"

\* faulty variant: the output passes only with the action NONE
OutputBlockedUnlessNone(guardrail_response) ==
    Get(guardrail_response, "action", None) # "NONE"

\* "action" in output_guardrail_response and
\* output_guardrail_response["action"] == "GUARDRAIL_INTERVENED"
OutputBlocked(guardrail_response) ==
    /\ In("action", guardrail_response)
    /\ guardrail_response["action"] = "GUARDRAIL_INTERVENED"

\* the messages sent to the model: system prompt with the policy, the
\* conversation history, the user message
ChatMessages(policy_text, history, message) ==
    << [role |-> "system",
        content |-> <<"You are a customer support agent. You follow the provided refund policy.",
                      "\n\nREFUND POLICY:\n", policy_text>>] >>
        \o history
        \o << [role |-> "user", content |-> message] >>

\* the usage dict of a response; completion.usage is <<>> when it is None
ChatUsage(c) ==
    IF c.usage = <<>>
    THEN [input_tokens |-> 0, output_tokens |-> 0, total_tokens |-> 0]
    ELSE [input_tokens |-> c.usage[1].prompt_tokens,
          output_tokens |-> c.usage[1].completion_tokens,
          total_tokens |-> c.usage[1].total_tokens]

\* chat_with_model: the dicts it returns
BlockedAtInput(guardrail_response, message) ==
    [blocked |-> TRUE, stage |-> "input",
     guardrail_response |-> guardrail_response, message |-> message]
BlockedAtOutput(guardrail_response, c) ==
    [blocked |-> TRUE, stage |-> "output",
     guardrail_response |-> guardrail_response, message |-> c.content,
     usage |-> ChatUsage(c)]
NotBlocked(input_response, output_response, c) ==
    [blocked |-> FALSE, message |-> c.content,
     input_guardrail_response |-> input_response,
     output_guardrail_response |-> output_response,
     usage |-> ChatUsage(c)]
\* the error dicts: the pieces of the formatted string
ChatError(e) == [error |-> <<e>>]
OpenAIError(e) == [error |-> <<"OpenAI API error: ", e>>]
PolicyNotFound == [error |-> <<"Refund policy file not found at ", "refund_policy_path">>]

\* faulty variant: the assistant message is stored whether blocked or not
ProcessResponseStoresBlocked(history, resp, message) ==
    IF In("error", resp) THEN history
    ELSE LET with_user == Append(history, [role |-> "user", content |-> message])
         IN  IF In("message", resp)
             THEN Append(with_user, [role |-> "assistant", content |-> resp["message"]])
             ELSE with_user

\* process_response: the conversation history after it
ProcessResponse(history, resp, message) ==
    IF In("error", resp) THEN history
    ELSE LET with_user == Append(history, [role |-> "user", content |-> message])
         IN  IF In("message", resp) /\ ~Get(resp, "blocked", FALSE)
             THEN Append(with_user, [role |-> "assistant", content |-> resp["message"]])
             ELSE with_user

\* input(...).strip() and .lower() on the lines of UserInputs
Strip(line) ==
    CASE line = " " -> ""
      [] line = " Q1 " -> "Q1"
      [] OTHER -> line
Lower(line) ==
    CASE line = "/CLEAR" -> "/clear"
      [] line = "/Quit" -> "/quit"
      [] line = "Q1" -> "q1"
      [] line = "Q2" -> "q2"
      [] OTHER -> line

-----------------------------------------------------------------------------
(* Input domain of the interactive session: the lines typed, the policy    *)
(* file, the remote guardrail and the model                                *)

MaxTurns == 2

UserInputs == {"", " ", "/Quit", "/CLEAR", "/help", "/status", " Q1 ", "Q2"}

\* what extract_pdf_text does
PdfOutcomes == { Ok("POLICY"), Raise("FileNotFoundError"), Raise("RuntimeError") }

R_INTERVENED ==
    [action |-> "GUARDRAIL_INTERVENED",
     assessments |-> << [automatedReasoningPolicy |-> [findings |-> <<P_INVALID>>]] >>]

\* what a call of bedrock_runtime.apply_guardrail does
GuardrailOutcomes ==
    { Ok(ServiceResponse(<<P_VALID>>)), Ok(R_INTERVENED),
      Raise("ClientError"), Raise("BotoCoreError") }

\* what a call of openai_client.chat.completions.create does
ModelOutcomes ==
    { Ok([content |-> "A1",
          usage |-> << [prompt_tokens |-> 7, completion_tokens |-> 5, total_tokens |-> 12] >>]),
      Ok([content |-> "A2", usage |-> <<>>]),
      Ok([content |-> None, usage |-> <<>>]),
      Raise("APIError") }

-----------------------------------------------------------------------------
(* The variables of the calls a specification does not follow are not used *)

ParseIdle == finding = Idle /\ parsed = Idle
ExtractIdle == response = Idle /\ findings = Idle
EvaluateIdle == actual_result = Idle /\ expected_result = Idle /\ test_passed = Idle
MainIdle ==
    /\ args_test = Idle
    /\ test_cases_data = Idle
    /\ test_cases = Idle
    /\ results = Idle
    /\ requests = Idle
    /\ exit_code = Idle
    /\ loaded = Idle
    /\ responses = Idle
FrameIdle == response_at_call = Idle
CallsIdle == calls = Idle /\ started = Idle /\ completed = Idle
ChatIdle ==
    /\ conversation_history = Idle
    /\ refund_policy_text = Idle
    /\ user_message = Idle
    /\ input_guardrail_response = Idle
    /\ completion = Idle
    /\ output_guardrail_response = Idle
    /\ chat_response = Idle
    /\ events = Idle
    /\ turns = Idle
    /\ turns_done = Idle

-----------------------------------------------------------------------------
(* Specification SpecParse: one call of _parse_finding on any payload *)

InitParse ==
    /\ pc = "call _parse_finding"
    /\ IsFindingPayload(finding)
    /\ parsed = Idle
    /\ exc = NoExc
    /\ ExtractIdle
    /\ EvaluateIdle
    /\ MainIdle
    /\ ChatIdle
    /\ FrameIdle
    /\ CallsIdle

CallParseFinding ==
    /\ pc = "call _parse_finding"
    /\ parsed' = ParseFinding(finding)
    /\ pc' = "return _parse_finding"
    /\ UNCHANGED <<finding, exc, extractVars, evaluateVars, mainVars, frameVars, callsVars, chatVars>>

NextParse == CallParseFinding

SpecParse == InitParse /\ [][NextParse]_vars

-----------------------------------------------------------------------------
(* Specification SpecExtract: one call of                                  *)
(* extract_automated_reasoning_results on any response                     *)

InitExtract ==
    /\ pc = "call extract"
    /\ IsResponse(response)
    /\ findings = Idle
    /\ exc = NoExc
    /\ ParseIdle
    /\ EvaluateIdle
    /\ MainIdle
    /\ ChatIdle
    /\ FrameIdle
    /\ CallsIdle

CallExtract ==
    /\ pc = "call extract"
    /\ LET r == ExtractAutomatedReasoningResults(response)
       IN  /\ exc' = r.exc
           /\ findings' = r.val
    /\ pc' = "return extract"
    /\ UNCHANGED <<response, parseVars, evaluateVars, mainVars, frameVars, callsVars, chatVars>>

NextExtract == CallExtract

SpecExtract == InitExtract /\ [][NextExtract]_vars

-----------------------------------------------------------------------------
(* Specification SpecFrame: one call of                                    *)
(* extract_automated_reasoning_results, followed object by object, and a   *)
(* caller that changes a list it was returned                              *)

InitFrame ==
    /\ pc = "call extract"
    /\ IsFrameResponse(response)
    /\ response_at_call = response
    /\ findings = Idle
    /\ exc = NoExc
    /\ ParseIdle
    /\ EvaluateIdle
    /\ MainIdle
    /\ ChatIdle
    /\ CallsIdle

\* the call: response is the object after the call
CallExtractObjects ==
    /\ pc = "call extract"
    /\ LET r == ExtractObjects(response)
       IN  /\ findings' = r.value
           /\ response' = ApplyWrites(response, r.writes)
    /\ pc' = "return extract"
    /\ UNCHANGED <<exc, response_at_call, parseVars, evaluateVars, mainVars, callsVars, chatVars>>

\* the caller appends a rule to the rules of a finding it was returned; the
\* list object it appends to may be an object of the response
CallerChangesRules ==
    /\ pc = "return extract"
    /\ \E k \in 1..Len(findings) :
         LET changed == ListObject(findings[k].rules.ref,
                                   Append(findings[k].rules.items, [identifier |-> "Z"]))
         IN  /\ findings' = [findings EXCEPT ![k].rules = changed]
             /\ response' = IF changed.ref = NewObject THEN response
                             ELSE WriteList(response, changed)
    /\ pc' = "caller changed rules"
    /\ UNCHANGED <<exc, response_at_call, parseVars, evaluateVars, mainVars, callsVars, chatVars>>

NextFrame ==
    \/ CallExtractObjects
    \/ CallerChangesRules

SpecFrame == InitFrame /\ [][NextFrame]_vars

-----------------------------------------------------------------------------
(* Specification SpecCalls: up to MaxCalls calls of                        *)
(* extract_automated_reasoning_results from two call sites, one after the  *)
(* other or with their steps interleaved in any order                      *)

InitCalls ==
    /\ pc = "concurrent calls"
    /\ calls = [site \in CallSites |-> NoCall]
    /\ started = 0
    /\ completed = <<>>
    /\ exc = NoExc
    /\ ParseIdle
    /\ ExtractIdle
    /\ EvaluateIdle
    /\ MainIdle
    /\ ChatIdle
    /\ FrameIdle

\* a call site calls the function on some response
CallStart(site) ==
    /\ calls[site].state = "idle"
    /\ started < MaxCalls
    /\ \E r \in CallResponses :
         calls' = [calls EXCEPT ![site] =
                      [state |-> "running", response |-> r, visited |-> 0,
                       findings |-> NewFindings(calls[site].findings),
                       interleaved |-> FALSE]]
    /\ started' = started + 1
    /\ UNCHANGED <<pc, exc, completed, parseVars, extractVars, evaluateVars,
                   mainVars, frameVars, chatVars>>

\* the call of a site visits its next payload
CallStep(site) ==
    /\ calls[site].state = "running"
    /\ calls[site].visited < Len(PlacesOfResponse(calls[site].response))
    /\ calls' = VisitNext(calls, site)
    /\ UNCHANGED <<pc, exc, started, completed, parseVars, extractVars, evaluateVars,
                   mainVars, frameVars, chatVars>>

\* return findings
CallReturn(site) ==
    /\ calls[site].state = "running"
    /\ calls[site].visited = Len(PlacesOfResponse(calls[site].response))
    /\ completed' = Append(completed,
                           [site |-> site,
                            response |-> calls[site].response,
                            returned |-> calls[site].findings,
                            interleaved |-> calls[site].interleaved])
    /\ calls' = [calls EXCEPT ![site].state = "idle"]
    /\ UNCHANGED <<pc, exc, started, parseVars, extractVars, evaluateVars,
                   mainVars, frameVars, chatVars>>

NextCalls ==
    \E site \in CallSites :
        \/ CallStart(site)
        \/ CallStep(site)
        \/ CallReturn(site)

SpecCalls == InitCalls /\ [][NextCalls]_vars

-----------------------------------------------------------------------------
(* Specification SpecEvaluate: one call of _evaluate_test_result *)

InitEvaluate ==
    /\ pc = "call _evaluate_test_result"
    /\ actual_result \in ActualResults
    /\ expected_result \in TestResult
    /\ test_passed = Idle
    /\ exc = NoExc
    /\ ParseIdle
    /\ ExtractIdle
    /\ MainIdle
    /\ ChatIdle
    /\ FrameIdle
    /\ CallsIdle

CallEvaluateTestResult ==
    /\ pc = "call _evaluate_test_result"
    /\ test_passed' = EvaluateTestResult(actual_result, expected_result)
    /\ pc' = "return _evaluate_test_result"
    /\ UNCHANGED <<actual_result, expected_result, exc, parseVars, extractVars, mainVars, frameVars, callsVars, chatVars>>

NextEvaluate == CallEvaluateTestResult

SpecEvaluate == InitEvaluate /\ [][NextEvaluate]_vars

-----------------------------------------------------------------------------
(* Specification SpecMain: main of the static test runner, from the test   *)
(* cases loaded to the exit of the process                                 *)

InitMain ==
    /\ pc = "main: select"
    /\ args_test \in ArgsTest
    /\ \E n \in 0..MaxTests : test_cases_data \in [1..n -> TestData]
    /\ test_cases = <<>>
    /\ results = EmptyDict
    /\ requests = <<>>
    /\ exit_code = <<>>
    /\ loaded = test_cases_data
    /\ responses = <<>>
    /\ exc = NoExc
    /\ ParseIdle
    /\ ExtractIdle
    /\ EvaluateIdle
    /\ FrameIdle
    /\ CallsIdle
    /\ ChatIdle

\* an exception that leaves main: printed by the handler, sys.exit(1)
MainRaises(e) ==
    /\ exc' = e
    /\ exit_code' = <<1>>
    /\ pc' = "exited"

\* if args.test: the range check and the selection of the single test
MainSelect ==
    /\ pc = "main: select"
    /\ IF ArgsTestGiven(args_test)
       THEN IF args_test[1] < 1 \/ args_test[1] > Len(test_cases_data)
            THEN /\ exit_code' = <<1>>
                 /\ pc' = "exited"
                 /\ UNCHANGED test_cases_data
            ELSE /\ test_cases_data' = << test_cases_data[args_test[1]] >>
                 /\ pc' = "main: convert"
                 /\ UNCHANGED exit_code
       ELSE /\ pc' = "main: convert"
            /\ UNCHANGED <<test_cases_data, exit_code>>
    /\ UNCHANGED <<args_test, test_cases, results, requests, exc, loaded, responses,
                   parseVars, extractVars, evaluateVars, frameVars, callsVars,
                   chatVars>>

\* the loop that builds test_cases
MainConvert ==
    /\ pc = "main: convert"
    /\ LET converted == ConvertTestCases(<<>>, test_cases_data)
       IN  IF converted.exc # NoExc
           THEN /\ MainRaises(converted.exc)
                /\ UNCHANGED test_cases
           ELSE /\ test_cases' = converted.val
                /\ pc' = "main: run"
                /\ UNCHANGED <<exc, exit_code>>
    /\ UNCHANGED <<args_test, test_cases_data, results, requests, loaded, responses,
                   parseVars, extractVars, evaluateVars, frameVars, callsVars,
                   chatVars>>

\* if args.test: run_test_case(test_cases[0]) and the results of a single test
MainRunSingle ==
    /\ pc = "main: run"
    /\ ArgsTestGiven(args_test)
    /\ \E service \in ServiceOutcomes :
         LET call == ApplyGuardrail(test_cases[1].question, test_cases[1].answer, service)
             run == RunTestCase(test_cases[1], call.response)
         IN  /\ requests' = requests \o call.sent
             /\ responses' = Append(responses, call.response)
             /\ IF run.exc # NoExc
                THEN /\ MainRaises(run.exc)
                     /\ UNCHANGED results
                ELSE /\ results' =
                            [total_tests |-> 1,
                             passed |-> IF run.val.test_passed THEN 1 ELSE 0,
                             failed |-> IF run.val.test_passed THEN 0 ELSE 1,
                             success_rate |-> IF run.val.test_passed
                                              THEN [num |-> 100, den |-> 1]
                                              ELSE [num |-> 0, den |-> 1],
                             test_results |-> <<run.val>>,
                             single_test_number |-> args_test[1]]
                     /\ pc' = "main: summary"
                     /\ UNCHANGED <<exc, exit_code>>
    /\ UNCHANGED <<args_test, test_cases_data, test_cases, loaded,
                   parseVars, extractVars, evaluateVars, frameVars, callsVars,
                   chatVars>>

\* run_all_tests: the results dict before the loop
RunAllTestsBegin ==
    /\ pc = "main: run"
    /\ ~ArgsTestGiven(args_test)
    /\ results' = [guardrail_id |-> "guardrail_id",
                   guardrail_version |-> "guardrail_version",
                   total_tests |-> Len(test_cases),
                   passed |-> 0,
                   failed |-> 0,
                   test_results |-> <<>>]
    /\ pc' = "run_all_tests: loop"
    /\ UNCHANGED <<args_test, test_cases_data, test_cases, requests, exit_code, exc,
                   loaded, responses,
                   parseVars, extractVars, evaluateVars, frameVars, callsVars,
                   chatVars>>

\* run_all_tests: one iteration of the loop over test_cases
RunAllTestsIteration ==
    /\ pc = "run_all_tests: loop"
    /\ Len(results.test_results) < Len(test_cases)
    /\ \E service \in ServiceOutcomes :
         LET test_case == test_cases[Len(results.test_results) + 1]
             call == ApplyGuardrail(test_case.question, test_case.answer, service)
             run == RunTestCase(test_case, call.response)
         IN  /\ requests' = requests \o call.sent
             /\ responses' = Append(responses, call.response)
             /\ IF run.exc # NoExc
                THEN /\ MainRaises(run.exc)
                     /\ UNCHANGED results
                ELSE /\ results' = RecordTestResult(results, run.val)
                     /\ UNCHANGED <<pc, exc, exit_code>>
    /\ UNCHANGED <<args_test, test_cases_data, test_cases, loaded,
                   parseVars, extractVars, evaluateVars, frameVars, callsVars,
                   chatVars>>

\* run_all_tests: success_rate and the return to main
RunAllTestsEnd ==
    /\ pc = "run_all_tests: loop"
    /\ Len(results.test_results) = Len(test_cases)
    /\ results' = results @@
                    [success_rate |-> SuccessRate(results.passed, results.total_tests)]
    /\ pc' = "main: summary"
    /\ UNCHANGED <<args_test, test_cases_data, test_cases, requests, exit_code, exc,
                   loaded, responses,
                   parseVars, extractVars, evaluateVars, frameVars, callsVars,
                   chatVars>>

\* the summary is printed and main returns results
MainSummary ==
    /\ pc = "main: summary"
    /\ pc' = "exited"
    /\ exit_code' = <<0>>
    /\ UNCHANGED <<args_test, test_cases_data, test_cases, results, requests, exc,
                   loaded, responses,
                   parseVars, extractVars, evaluateVars, frameVars, callsVars,
                   chatVars>>

NextMain ==
    \/ MainSelect
    \/ MainConvert
    \/ MainRunSingle
    \/ RunAllTestsBegin
    \/ RunAllTestsIteration
    \/ RunAllTestsEnd
    \/ MainSummary

SpecMain == InitMain /\ [][NextMain]_vars

-----------------------------------------------------------------------------
(* Specification SpecChat: run_interactive_session of the OpenAI demo, up  *)
(* to MaxTurns turns of chat_with_model and process_response, each remote  *)
(* call of a turn a step of its own                                        *)

InitChat ==
    /\ pc = "session: input"
    /\ conversation_history = <<>>
    /\ refund_policy_text = None
    /\ user_message = Unset
    /\ input_guardrail_response = Unset
    /\ completion = Unset
    /\ output_guardrail_response = Unset
    /\ chat_response = Unset
    /\ events = <<>>
    /\ turns = <<>>
    /\ turns_done = 0
    /\ exc = NoExc
    /\ ParseIdle
    /\ ExtractIdle
    /\ EvaluateIdle
    /\ MainIdle
    /\ FrameIdle
    /\ CallsIdle

notChat == <<exc, parseVars, extractVars, evaluateVars, mainVars, frameVars, callsVars>>

\* chat_with_model returns resp
ChatReturns(resp) ==
    /\ chat_response' = resp
    /\ pc' = "session: process_response"

\* one pass of the loop of run_interactive_session up to the call of
\* chat_with_model: an empty line, a command or a message
SessionInput ==
    /\ pc = "session: input"
    /\ \E line \in UserInputs :
         LET user_input == Strip(line)
         IN  IF user_input = "" \/ Lower(user_input) \in {"/help", "/status"}
             THEN UNCHANGED <<pc, chatVars>>
             ELSE IF Lower(user_input) \in {"/quit", "/exit", "/bye"}
             THEN /\ pc' = "session: ended"
                  /\ UNCHANGED chatVars
             ELSE IF Lower(user_input) = "/clear"
             THEN /\ conversation_history' = <<>>
                  /\ turns' = <<>>
                  /\ UNCHANGED <<pc, refund_policy_text, user_message,
                                 input_guardrail_response, completion,
                                 output_guardrail_response, chat_response, events,
                                 turns_done>>
             ELSE /\ turns_done < MaxTurns
                  /\ user_message' = user_input
                  /\ input_guardrail_response' = Unset
                  /\ completion' = Unset
                  /\ output_guardrail_response' = Unset
                  /\ chat_response' = Unset
                  /\ events' = <<>>
                  /\ pc' = "chat: load policy"
                  /\ UNCHANGED <<conversation_history, refund_policy_text, turns,
                                 turns_done>>
    /\ UNCHANGED notChat

\* chat_with_model: the refund policy is loaded when it is not loaded yet
ChatLoadPolicy ==
    /\ pc = "chat: load policy"
    /\ IF Falsy(refund_policy_text)
       THEN \E pdf \in PdfOutcomes :
              IF pdf.exc = NoExc
              THEN /\ refund_policy_text' = pdf.val
                   /\ pc' = "chat: input guardrail"
                   /\ UNCHANGED chat_response
              ELSE /\ ChatReturns(IF pdf.exc = "FileNotFoundError"
                                  THEN PolicyNotFound ELSE ChatError(pdf.exc))
                   /\ UNCHANGED refund_policy_text
       ELSE /\ pc' = "chat: input guardrail"
            /\ UNCHANGED <<refund_policy_text, chat_response>>
    /\ UNCHANGED <<conversation_history, user_message, input_guardrail_response,
                   completion, output_guardrail_response, events, turns, turns_done>>
    /\ UNCHANGED notChat

\* chat_with_model: apply_guardrail(question=user_message) and the test of
\* its response
ChatInputGuardrail ==
    /\ pc = "chat: input guardrail"
    /\ \E service \in GuardrailOutcomes :
         LET call == ChatApplyGuardrail(user_message, None, service)
         IN  /\ events' = Append(events,
                     [op |-> "apply_guardrail", question |-> user_message,
                      answer |-> None, sent |-> call.sent, returned |-> call.returned])
             /\ IF call.returned.exc # NoExc
                THEN /\ ChatReturns(ChatError(call.returned.exc))
                     /\ UNCHANGED input_guardrail_response
                ELSE /\ input_guardrail_response' = call.returned.val
                     /\ IF InputBlocked(call.returned.val)
                        THEN ChatReturns(BlockedAtInput(call.returned.val, user_message))
                        ELSE /\ pc' = "chat: invoke model"
                             /\ UNCHANGED chat_response
    /\ UNCHANGED <<conversation_history, refund_policy_text, user_message, completion,
                   output_guardrail_response, turns, turns_done>>
    /\ UNCHANGED notChat

\* chat_with_model: openai_client.chat.completions.create
ChatInvokeModel ==
    /\ pc = "chat: invoke model"
    /\ \E model \in ModelOutcomes :
         /\ events' = Append(events,
                 [op |-> "chat.completions.create",
                  messages |-> ChatMessages(refund_policy_text, conversation_history,
                                            user_message),
                  returned |-> model])
         /\ IF model.exc # NoExc
            THEN /\ ChatReturns(OpenAIError(model.exc))
                 /\ UNCHANGED completion
            ELSE /\ completion' = model.val
                 /\ pc' = "chat: output guardrail"
                 /\ UNCHANGED chat_response
    /\ UNCHANGED <<conversation_history, refund_policy_text, user_message,
                   input_guardrail_response, output_guardrail_response, turns,
                   turns_done>>
    /\ UNCHANGED notChat

\* chat_with_model: apply_guardrail(question=user_message,
\* answer=assistant_message), the test of its response and the return
ChatOutputGuardrail ==
    /\ pc = "chat: output guardrail"
    /\ \E service \in GuardrailOutcomes :
         LET call == ChatApplyGuardrail(user_message, completion.content, service)
         IN  /\ events' = Append(events,
                     [op |-> "apply_guardrail", question |-> user_message,
                      answer |-> completion.content, sent |-> call.sent,
                      returned |-> call.returned])
             /\ IF call.returned.exc # NoExc
                THEN /\ ChatReturns(OpenAIError(call.returned.exc))
                     /\ UNCHANGED output_guardrail_response
                ELSE /\ output_guardrail_response' = call.returned.val
                     /\ IF OutputBlocked(call.returned.val)
                        THEN ChatReturns(BlockedAtOutput(call.returned.val, completion))
                        ELSE ChatReturns(NotBlocked(input_guardrail_response,
                                                    call.returned.val, completion))
    /\ UNCHANGED <<conversation_history, refund_policy_text, user_message,
                   input_guardrail_response, completion, turns, turns_done>>
    /\ UNCHANGED notChat

\* process_response(response, user_input)
SessionProcessResponse ==
    /\ pc = "session: process_response"
    /\ conversation_history' =
           ProcessResponse(conversation_history, chat_response, user_message)
    /\ turns' = Append(turns, [user_message |-> user_message,
                               response |-> chat_response])
    /\ turns_done' = turns_done + 1
    /\ pc' = "session: input"
    /\ UNCHANGED <<refund_policy_text, user_message, input_guardrail_response,
                   completion, output_guardrail_response, chat_response, events>>
    /\ UNCHANGED notChat

NextChat ==
    \/ SessionInput
    \/ ChatLoadPolicy
    \/ ChatInputGuardrail
    \/ ChatInvokeModel
    \/ ChatOutputGuardrail
    \/ SessionProcessResponse

SpecChat == InitChat /\ [][NextChat]_vars

-----------------------------------------------------------------------------
(* Properties of _parse_finding, checked under SpecParse *)

ParseReturned == pc = "return _parse_finding"

ResultOutcomes == {"SATISFIABLE", "VALID", "INVALID", "AMBIGUOUS", None}

\* C1: _parse_finding classifies by the presence of a key, never by its value,
\* in the priority order satisfiable, valid, invalid, translationAmbiguous;
\* with none of the four present the result is None, so the result is always
\* one of the five outcomes.
C1_ClassifiedByPresenceInOrder ==
    ParseReturned =>
        LET has(k) == k \in DOMAIN finding
        IN  /\ parsed.result \in ResultOutcomes
            /\ has("satisfiable") => parsed.result = "SATISFIABLE"
            /\ (~has("satisfiable") /\ has("valid")) => parsed.result = "VALID"
            /\ (~has("satisfiable") /\ ~has("valid") /\ has("invalid"))
                   => parsed.result = "INVALID"
            /\ (~has("satisfiable") /\ ~has("valid") /\ ~has("invalid")
                    /\ has("translationAmbiguous"))
                   => parsed.result = "AMBIGUOUS"
            /\ (\A k \in ClassificationKeys : ~has(k)) => parsed.result = None

\* a payload with satisfiable: false and valid: true was classified SATISFIABLE
C1_Witness ==
    /\ ParseReturned
    /\ {"satisfiable", "valid"} \subseteq DOMAIN finding
    /\ finding["satisfiable"] = FALSE
    /\ finding["valid"] = TRUE
    /\ parsed.result = "SATISFIABLE"

\* C2: the rules of the normalized finding are the payload's supportingRules
\* followed by its contradictingRules, each in source order, a missing list
\* counting as empty.
C2_RulesSupportingThenContradicting ==
    ParseReturned =>
        LET s == IF "supportingRules" \in DOMAIN finding
                 THEN finding["supportingRules"] ELSE <<>>
            c == IF "contradictingRules" \in DOMAIN finding
                 THEN finding["contradictingRules"] ELSE <<>>
        IN  /\ Len(parsed.rules) = Len(s) + Len(c)
            /\ \A i \in 1..Len(s) : parsed.rules[i] = s[i]
            /\ \A j \in 1..Len(c) : parsed.rules[Len(s) + j] = c[j]

\* supportingRules [A, B] and contradictingRules [C] gave [A, B, C]
C2_Witness ==
    /\ ParseReturned
    /\ RuleKeys \subseteq DOMAIN finding
    /\ finding["supportingRules"] = <<[identifier |-> "A"], [identifier |-> "B"]>>
    /\ finding["contradictingRules"] = <<[identifier |-> "C"]>>
    /\ parsed.rules = <<[identifier |-> "A"], [identifier |-> "B"], [identifier |-> "C"]>>

-----------------------------------------------------------------------------
(* Properties of extract_automated_reasoning_results, checked under        *)
(* SpecExtract.  The payloads a response holds are listed here without the *)
(* extraction code: by concatenation, level by level.                      *)

ExtractReturned == pc = "return extract"

\* the finding payloads of one assessment, of a list of assessments and of an
\* outputAssessments mapping
PayloadsOfAssessment(a) ==
    IF /\ "automatedReasoningPolicy" \in DOMAIN a
       /\ "findings" \in DOMAIN a["automatedReasoningPolicy"]
    THEN a["automatedReasoningPolicy"]["findings"]
    ELSE <<>>
PayloadsOfList(al) == Flatten([i \in 1..Len(al) |-> PayloadsOfAssessment(al[i])])
PayloadsOfMapping(oa) == Flatten([i \in 1..Len(oa) |-> PayloadsOfList(oa[i].value)])

HasOutputAssessments(r) ==
    /\ "trace" \in DOMAIN r
    /\ "guardrail" \in DOMAIN r["trace"]
    /\ "outputAssessments" \in DOMAIN r["trace"]["guardrail"]

TracePayloadsOf(r) ==
    IF HasOutputAssessments(r)
    THEN PayloadsOfMapping(r["trace"]["guardrail"]["outputAssessments"])
    ELSE <<>>

Range(seq) == { seq[i] : i \in 1..Len(seq) }

\* C3: for a response with the key assessments the output holds one normalized
\* finding for each finding payload of each assessment that has an
\* automatedReasoningPolicy, in assessment order and then finding order;
\* its length is the number of those payloads.
C3_DirectOneFindingPerPayloadInOrder ==
    (ExtractReturned /\ "assessments" \in DOMAIN response) =>
        LET payloads == PayloadsOfList(response["assessments"])
        IN  /\ exc = NoExc
            /\ Len(findings) = Len(payloads)
            /\ \A k \in 1..Len(payloads) : findings[k] = ParseFinding(payloads[k])

\* assessments with one and with two findings gave three findings, in order
C3_Witness ==
    /\ ExtractReturned
    /\ "assessments" \in DOMAIN response
    /\ Len(response["assessments"]) = 2
    /\ PayloadsOfAssessment(response["assessments"][1]) = <<P_VALID>>
    /\ PayloadsOfAssessment(response["assessments"][2]) = <<P_AMBIGUOUS, EmptyDict>>
    /\ Len(findings) = 3
    /\ findings[1].result = "VALID"
    /\ findings[2].result = "AMBIGUOUS"
    /\ findings[3].result = None

\* C4: when the key assessments is present, also with an empty list or with no
\* reasoning findings, the output is made of the payloads under assessments
\* alone: the payloads under trace.guardrail.outputAssessments are not read
\* and none of them reaches the output.
C4_DirectShapeExcludesTrace ==
    (ExtractReturned /\ "assessments" \in DOMAIN response) =>
        LET direct == PayloadsOfList(response["assessments"])
            traced == TracePayloadsOf(response)
        IN  /\ Len(findings) = Len(direct)
            /\ \A k \in 1..Len(findings) : findings[k].finding \in Range(direct)
            /\ Range(traced) \cap Range(direct) = {}
                   => \A k \in 1..Len(findings) : findings[k].finding \notin Range(traced)

\* an empty assessments list beside a trace that holds a finding gave nothing
C4_Witness ==
    /\ ExtractReturned
    /\ "assessments" \in DOMAIN response
    /\ response["assessments"] = <<>>
    /\ TracePayloadsOf(response) = <<P_INVALID>>
    /\ findings = <<>>

\* C5: for a response without the key assessments and with
\* trace.guardrail.outputAssessments the output holds one normalized finding
\* for each payload, following the mapping's values in the mapping's order,
\* each assessments list in order and each assessment's findings in order.
C5_TraceOneFindingPerPayloadInOrder ==
    (ExtractReturned /\ "assessments" \notin DOMAIN response
         /\ HasOutputAssessments(response)) =>
        LET payloads == TracePayloadsOf(response)
        IN  /\ exc = NoExc
            /\ Len(findings) = Len(payloads)
            /\ \A k \in 1..Len(payloads) :
                   /\ findings[k].finding = payloads[k]
                   /\ findings[k].result = ParseResult(payloads[k])
                   /\ findings[k].rules = ParseRules(payloads[k])

\* one key, one assessment, one finding with translationAmbiguous: one
\* finding with result AMBIGUOUS
C5_Witness ==
    /\ ExtractReturned
    /\ "assessments" \notin DOMAIN response
    /\ HasOutputAssessments(response)
    /\ Len(response["trace"]["guardrail"]["outputAssessments"]) = 1
    /\ Len(response["trace"]["guardrail"]["outputAssessments"][1].value) = 1
    /\ TracePayloadsOf(response) = <<P_AMBIGUOUS>>
    /\ Len(findings) = 1
    /\ findings[1].result = "AMBIGUOUS"

\* C6: a response with neither the key assessments nor the path
\* trace.guardrail.outputAssessments gives the empty list and raises nothing.
C6_NeitherShapeGivesEmpty ==
    (ExtractReturned /\ "assessments" \notin DOMAIN response
         /\ ~HasOutputAssessments(response)) =>
        /\ findings = <<>>
        /\ exc = NoExc

\* an error response whose trace has no guardrail gave the empty list
C6_Witness ==
    /\ ExtractReturned
    /\ response = [error |-> "ClientError", trace |-> EmptyDict]
    /\ findings = <<>>
    /\ exc = NoExc

\* C9: whatever optional keys of the shape contract are missing, the call
\* raises nothing and returns a list of findings; a payload without
\* classification keys has result None, one without rule lists has no rules.
C9_MissingKeysNeverRaise ==
    ExtractReturned =>
        /\ exc = NoExc
        /\ DOMAIN findings = 1..Len(findings)
        /\ \A k \in 1..Len(findings) :
               /\ findings[k].result \in ResultOutcomes
               /\ DOMAIN findings[k].finding \cap ClassificationKeys = {}
                      => findings[k].result = None
               /\ DOMAIN findings[k].finding \cap RuleKeys = {}
                      => findings[k].rules = <<>>

\* an assessment without the policy, a policy without findings and a payload
\* without any key were read and nothing was raised
C9_Witness ==
    /\ ExtractReturned
    /\ "trace" \notin DOMAIN response
    /\ "assessments" \in DOMAIN response
    /\ Len(response["assessments"]) = 2
    /\ response["assessments"][1] = [automatedReasoningPolicy |-> EmptyDict]
    /\ response["assessments"][2] = [automatedReasoningPolicy |-> [findings |-> <<EmptyDict>>]]
    /\ exc = NoExc
    /\ findings = << [result |-> None, finding |-> EmptyDict, rules |-> <<>>] >>

-----------------------------------------------------------------------------
(* Properties of _evaluate_test_result, checked under SpecEvaluate *)

EvaluateReturned == pc = "return _evaluate_test_result"

\* C7: with an actual result that is None or the empty string the evaluation
\* returns false, whatever result was expected.
C7_MissingActualNeverPasses ==
    (EvaluateReturned /\ (actual_result = None \/ actual_result = "")) =>
        test_passed = FALSE

\* no actual result against the expected result VALID: not passed
C7_Witness ==
    /\ EvaluateReturned
    /\ actual_result = None
    /\ expected_result.name = "VALID"
    /\ test_passed = FALSE

\* C8: with a non-empty actual string the evaluation returns true exactly when
\* the string is the expected member's string value, letter case included;
\* AMBIGUOUS therefore passes against no expected result.
C8_PassesIffExactlyEqual ==
    (EvaluateReturned /\ actual_result # None /\ actual_result # "") =>
        /\ test_passed \in BOOLEAN
        /\ test_passed <=> (actual_result = expected_result.value)
        /\ actual_result = "AMBIGUOUS" => ~test_passed

\* "valid" against the expected result VALID: not passed
C8_Witness ==
    /\ EvaluateReturned
    /\ actual_result = "valid"
    /\ expected_result.value = "VALID"
    /\ test_passed = FALSE

-----------------------------------------------------------------------------
(* Properties of TestCase construction in main, checked under SpecMain *)

AllRecognized(data) ==
    \A i \in 1..Len(data) : data[i]["expected_result"] \in RecognizedStrings

\* the conversion loop of main has ended without an exception
PastConvert ==
    \/ pc \in {"main: run", "run_all_tests: loop", "main: summary"}
    \/ pc = "exited" /\ exit_code = <<0>>

\* C10: the expected-result taxonomy is closed.  A TestCase object exists only
\* for the strings VALID, INVALID and SATISFIABLE and holds the member of that
\* value; any other string makes the construction raise ValueError, which
\* leaves main and ends the process with status 1 before any test is run, so
\* that no TestCase object and no verdict exist for an unrecognized string.
C10_UnrecognizedExpectedResultSurfaces ==
    /\ \A i \in 1..Len(test_cases) :
           /\ test_cases[i].expected_result \in TestResult
           /\ test_cases[i].expected_result.value = test_cases_data[i]["expected_result"]
    /\ PastConvert =>
           /\ AllRecognized(test_cases_data)
           /\ Len(test_cases) = Len(test_cases_data)
    /\ (pc \notin {"main: select", "main: convert"} /\ ~AllRecognized(test_cases_data)
            /\ test_cases_data # <<>> /\ ~(pc = "exited" /\ exc = NoExc))
           => exc = "ValueError"
    /\ exc = "ValueError" =>
           /\ ~AllRecognized(test_cases_data)
           /\ pc = "exited"
           /\ exit_code = <<1>>
           /\ test_cases = <<>>
           /\ results = EmptyDict
           /\ requests = <<>>
    /\ "test_results" \in DOMAIN results =>
           \A i \in 1..Len(results.test_results) :
               results.test_results[i].expected_result \in RecognizedStrings

\* the second of two test cases expected "valid": the process ended with
\* status 1 and ValueError, without a TestCase object or a verdict
C10_Witness ==
    /\ pc = "exited"
    /\ exc = "ValueError"
    /\ exit_code = <<1>>
    /\ args_test = <<>>
    /\ Len(test_cases_data) = 2
    /\ test_cases_data[1]["expected_result"] = "VALID"
    /\ test_cases_data[2]["expected_result"] = "valid"
    /\ test_cases = <<>>
    /\ results = EmptyDict

-----------------------------------------------------------------------------
(* Properties of the objects of a call, checked under SpecFrame *)

\* C11: the call has no side effect on its input.  After the call the
\* response, with every assessment, finding payload, supportingRules list and
\* contradictingRules list in it, is as it was when the call was made, and
\* the rules of every returned finding are a new list object: a caller that
\* changes that list changes no rule list of a payload.
C11_NoSideEffectOnInput ==
    pc # "call extract" =>
        /\ response = response_at_call
        /\ \A k \in 1..Len(findings) :
               /\ findings[k].rules.ref = NewObject
               /\ Get(PayloadAt(response, findings[k].finding), "supportingRules", <<>>)
                      = Get(PayloadAt(response_at_call, findings[k].finding),
                            "supportingRules", <<>>)
               /\ Get(PayloadAt(response, findings[k].finding), "contradictingRules", <<>>)
                      = Get(PayloadAt(response_at_call, findings[k].finding),
                            "contradictingRules", <<>>)
        /\ LET alone == ExtractAutomatedReasoningResults(response_at_call).val
           IN  /\ Len(findings) = Len(alone)
               /\ \A k \in 1..Len(findings) :
                      /\ findings[k].result = alone[k].result
                      /\ PayloadAt(response_at_call, findings[k].finding) = alone[k].finding
                      /\ pc = "return extract" => findings[k].rules.items = alone[k].rules

\* the caller appended Z to the returned rules [A, B, C]; the payload still
\* has supportingRules [A, B] and contradictingRules [C]
C11_Witness ==
    /\ pc = "caller changed rules"
    /\ \E k \in 1..Len(findings) :
           /\ findings[k].rules.items =
                  <<[identifier |-> "A"], [identifier |-> "B"],
                    [identifier |-> "C"], [identifier |-> "Z"]>>
           /\ PayloadAt(response, findings[k].finding) = P_RULES
    /\ response = response_at_call

-----------------------------------------------------------------------------
(* The raw finding, checked under SpecExtract *)

\* the payloads the call is to normalize, whichever shape the response has
ExtractedPayloads(r) ==
    IF "assessments" \in DOMAIN r THEN PayloadsOfList(r["assessments"])
    ELSE TracePayloadsOf(r)

\* C12: every normalized finding carries under "finding" the payload it was
\* built from: the i-th finding of the output holds the i-th payload of the
\* response, with all its keys and the value of each key.
C12_RawFindingIsThePayload ==
    ExtractReturned =>
        LET payloads == ExtractedPayloads(response)
        IN  /\ Len(findings) = Len(payloads)
            /\ \A i \in 1..Len(payloads) :
                   /\ DOMAIN findings[i].finding = DOMAIN payloads[i]
                   /\ \A k \in DOMAIN payloads[i] :
                          findings[i].finding[k] = payloads[i][k]

\* the second finding of a trace holds the payload with valid and its
\* supportingRules, the first the payload with translationAmbiguous
C12_Witness ==
    /\ ExtractReturned
    /\ "assessments" \notin DOMAIN response
    /\ ExtractedPayloads(response) = <<P_AMBIGUOUS, P_VALID>>
    /\ Len(findings) = 2
    /\ findings[1].finding = P_AMBIGUOUS
    /\ findings[2].finding = P_VALID
    /\ "supportingRules" \in DOMAIN findings[2].finding

-----------------------------------------------------------------------------
(* Properties of repeated and concurrent calls, checked under SpecCalls *)

\* what a call on r returns when no other call is made
ReturnedAlone(r) == ExtractAutomatedReasoningResults(r).val

\* C13: the call is deterministic.  Two calls on the same response, the order
\* of the keys of outputAssessments included, return equal lists, element
\* for element and in the same order, whatever calls on other responses
\* were made before or between them.
C13_SameResponseSameFindings ==
    \A i, j \in 1..Len(completed) :
        completed[i].response = completed[j].response =>
            /\ Len(completed[i].returned) = Len(completed[j].returned)
            /\ \A k \in 1..Len(completed[i].returned) :
                   completed[i].returned[k] = completed[j].returned[k]

\* one site called on a trace, then on a direct response, then on the first
\* trace again: the first and the third call returned the same two findings
C13_Witness ==
    /\ Len(completed) = 3
    /\ \A i \in 1..3 : completed[i].site = "site-1" /\ ~completed[i].interleaved
    /\ completed[1].response = TraceOf("gr-2", P_VALID, "gr-1", P_AMBIGUOUS)
    /\ completed[2].response = R_DIRECT_TWO
    /\ completed[3].response = completed[1].response
    /\ completed[2].returned # completed[1].returned
    /\ completed[3].returned = completed[1].returned
    /\ Len(completed[3].returned) = 2
    /\ completed[3].returned[1].result = "VALID"
    /\ completed[3].returned[2].result = "AMBIGUOUS"

\* C14: calls whose steps are interleaved in any order, on the same or on
\* different responses, do not disturb each other: at every step the local
\* list of a running call holds the findings of the payloads it has visited
\* so far, and each call returns the list it returns when run alone.
C14_InterleavedCallsReturnAsAlone ==
    /\ \A site \in CallSites :
           calls[site].state = "running" =>
               calls[site].findings =
                   SubSeq(ReturnedAlone(calls[site].response), 1, calls[site].visited)
    /\ \A i \in 1..Len(completed) :
           completed[i].returned = ReturnedAlone(completed[i].response)

\* two calls on the same response and one on another response had their
\* steps interleaved, and each returned its own two findings
C14_Witness ==
    /\ Len(completed) = 3
    /\ \A i \in 1..3 : completed[i].interleaved
    /\ completed[1].response = R_DIRECT
    /\ completed[2].response = R_DIRECT_TWO
    /\ completed[3].response = R_DIRECT
    /\ completed[1].site # completed[2].site
    /\ completed[1].returned = <<ParseFinding(P_VALID), ParseFinding(P_AMBIGUOUS)>>
    /\ completed[2].returned = <<ParseFinding(P_INVALID), ParseFinding(P_VALID)>>
    /\ completed[3].returned = completed[1].returned

-----------------------------------------------------------------------------
(* Properties of the static test runner, checked under SpecMain *)

\* the test results recorded so far, by run_test_case alone or in run_all_tests
TestResults == IF "test_results" \in DOMAIN results THEN results.test_results ELSE <<>>

\* results is the dict of run_all_tests
RunAllResults(res) == "guardrail_id" \in DOMAIN res

\* the result of the last finding of a list, None for the empty list
LastResult(fs) == IF fs = <<>> THEN None ELSE fs[Len(fs)].result

\* C15: the verdict of run_test_case depends on the last extracted finding
\* only.  The recorded automated_reasoning_result is the result of the last
\* finding of the extracted list (None without findings), test_passed is true
\* exactly when that result is the expected value, overall_action is that
\* result, or ERROR when it is None; an earlier finding with the expected
\* result does not make the test pass.
C15_VerdictFromLastFinding ==
    \A i \in 1..Len(TestResults) :
        LET entry == TestResults[i]
            run == entry.tests_run[1]
            fs == run.automated_reasoning_findings
        IN  /\ Len(entry.tests_run) = 1
            /\ fs = ExtractAutomatedReasoningResults(responses[i]).val
            /\ run.automated_reasoning_result = LastResult(fs)
            /\ entry.test_passed <=> (LastResult(fs) = entry.expected_result)
            /\ entry.overall_action =
                   IF LastResult(fs) = None THEN "ERROR" ELSE LastResult(fs)
            /\ (LastResult(fs) # entry.expected_result
                   /\ \E k \in 1..Len(fs) : fs[k].result = entry.expected_result)
                  => ~entry.test_passed

\* findings VALID then INVALID against the expected result VALID: the test
\* did not pass and the overall action is INVALID
C15_Witness ==
    \E i \in 1..Len(TestResults) :
        LET entry == TestResults[i]
            fs == entry.tests_run[1].automated_reasoning_findings
        IN  /\ Len(fs) = 2
            /\ fs[1].result = "VALID"
            /\ fs[2].result = "INVALID"
            /\ entry.expected_result = "VALID"
            /\ entry.test_passed = FALSE
            /\ entry.overall_action = "INVALID"
            /\ entry.tests_run[1].automated_reasoning_result = "INVALID"

\* the counters and the list of run_all_tests agree with the test cases
Tallied(res, cases) ==
    /\ res.total_tests = Len(cases)
    /\ Len(res.test_results) <= Len(cases)
    /\ res.passed + res.failed = Len(res.test_results)
    /\ res.passed = Cardinality({ i \in 1..Len(res.test_results) :
                                     res.test_results[i].test_passed })
    /\ \A i \in 1..Len(res.test_results) :
           /\ res.test_results[i].expected_result = cases[i].expected_result.value
           /\ res.test_results[i].tests_run[1].type = TestType(cases[i])
           /\ res.test_results[i].tests_run[1].content = ContentSummary(cases[i])
    /\ "success_rate" \in DOMAIN res =>
           /\ Len(res.test_results) = Len(cases)
           /\ res.passed + res.failed = res.total_tests
           /\ res.success_rate.den > 0
           /\ res.total_tests = 0 => res.success_rate.num = 0
           /\ res.total_tests > 0 =>
                  /\ res.success_rate.num * res.total_tests
                         = res.passed * 100 * res.success_rate.den
                  /\ (res.success_rate.num = 100 * res.success_rate.den)
                         <=> (res.passed = res.total_tests)

\* C16: in run_all_tests passed + failed is the number of entries of
\* test_results after every test case, every test case adds one entry and
\* increments exactly one of the two counters, and at the end passed + failed
\* = total_tests = the number of test cases, with test_results in the order of
\* the test cases; success_rate is 0 for no test case and passed / total_tests
\* * 100 otherwise, 100 exactly when every test passed.
C16_RunAllTestsCounts ==
    [][ RunAllResults(results') =>
            /\ Tallied(results', test_cases')
            /\ (RunAllResults(results)
                    /\ results'.test_results # results.test_results) =>
                   /\ Len(results'.test_results) = Len(results.test_results) + 1
                   /\ SubSeq(results'.test_results, 1, Len(results.test_results))
                          = results.test_results
                   /\ \/ /\ results'.passed = results.passed + 1
                         /\ results'.failed = results.failed
                      \/ /\ results'.passed = results.passed
                         /\ results'.failed = results.failed + 1
      ]_vars

\* two test cases, the first failed and the second passed: passed 1, failed
\* 1, and the success rate is 100 / 2
C16_Witness ==
    /\ pc = "exited"
    /\ exit_code = <<0>>
    /\ RunAllResults(results)
    /\ Len(test_cases) = 2
    /\ results.total_tests = 2
    /\ Len(results.test_results) = 2
    /\ ~results.test_results[1].test_passed
    /\ results.test_results[2].test_passed
    /\ results.test_results[1].expected_result = "INVALID"
    /\ results.test_results[2].expected_result = "VALID"
    /\ results.passed = 1
    /\ results.failed = 1
    /\ results.success_rate = [num |-> 100, den |-> 2]

\* C17: a ClientError of the remote call becomes a result.  apply_guardrail
\* returns a response with the key error alone; the test case is recorded
\* with action ERROR, no findings, overall_action ERROR and test_passed false;
\* nothing is raised, and run_all_tests runs every remaining test case.
C17_ClientErrorIsAResult ==
    /\ \A i \in 1..Len(responses) :
           responses[i] = [error |-> "ClientError"] =>
               /\ exc = NoExc
               /\ Len(TestResults) >= i
               /\ TestResults[i].tests_run[1].action = "ERROR"
               /\ TestResults[i].tests_run[1].automated_reasoning_findings = <<>>
               /\ TestResults[i].tests_run[1].automated_reasoning_result = None
               /\ TestResults[i].overall_action = "ERROR"
               /\ TestResults[i].test_passed = FALSE
    /\ exc \notin {"ClientError", "KeyError"}
    /\ (RunAllResults(results) /\ pc = "run_all_tests: loop") =>
           Len(responses) = Len(results.test_results)
    /\ (RunAllResults(results) /\ pc \in {"main: summary", "exited"}) =>
           /\ Len(results.test_results) = Len(test_cases)
           /\ Len(responses) = Len(test_cases)

\* the remote call of the first of two test cases failed; the second test
\* case was run, it passed, and the process ended with status 0
C17_Witness ==
    /\ pc = "exited"
    /\ exit_code = <<0>>
    /\ RunAllResults(results)
    /\ Len(responses) = 2
    /\ responses[1] = [error |-> "ClientError"]
    /\ responses[2] = ServiceResponse(<<P_VALID>>)
    /\ results.test_results[1].overall_action = "ERROR"
    /\ ~results.test_results[1].test_passed
    /\ results.test_results[2].test_passed
    /\ Len(requests) = 2

\* the test case has a non-empty question or a non-empty answer
HasContent(test_case) == ~Falsy(test_case.question) \/ ~Falsy(test_case.answer)

\* the numbers of the first n test cases that have content, in order
WithContent(n) == SelectSeq([i \in 1..n |-> i], LAMBDA i : HasContent(test_cases[i]))

\* C18: for a test case with neither a non-empty question nor a non-empty
\* answer apply_guardrail returns action ERROR with the error "No content
\* provided" and sends nothing to the remote service; the test case fails
\* with no findings.
C18_NoContentNoRequest ==
    /\ Len(requests) = Len(WithContent(Len(responses)))
    /\ \A i \in 1..Len(responses) :
           ~HasContent(test_cases[i]) =>
               /\ responses[i] = [action |-> "ERROR", error |-> "No content provided"]
               /\ Len(TestResults) >= i =>
                      /\ TestResults[i].test_passed = FALSE
                      /\ TestResults[i].tests_run[1].automated_reasoning_findings = <<>>
                      /\ TestResults[i].tests_run[1].action = "ERROR"

\* a test case without question and answer, then one with content: two test
\* cases run, one request sent
C18_Witness ==
    /\ Len(responses) = 2
    /\ test_cases[1].question = None
    /\ test_cases[1].answer = None
    /\ HasContent(test_cases[2])
    /\ responses[1] = [action |-> "ERROR", error |-> "No content provided"]
    /\ Len(requests) = 1
    /\ Len(TestResults) = 2
    /\ ~TestResults[1].test_passed
    /\ TestResults[1].tests_run[1].automated_reasoning_findings = <<>>

\* C19: with --test N and N below 1 or above the number of loaded test cases
\* main reports the number out of range and exits with status 1 without
\* running a test; with N in range the N-th test case is run and no other.
C19_TestNumberRejectedOrSelected ==
    (args_test # <<>> /\ pc # "main: select") =>
        LET N == args_test[1]
        IN  IF N < 1 \/ N > Len(loaded)
            THEN /\ pc = "exited"
                 /\ exit_code = <<1>>
                 /\ test_cases = <<>>
                 /\ responses = <<>>
                 /\ requests = <<>>
                 /\ results = EmptyDict
            ELSE /\ test_cases_data = << loaded[N] >>
                 /\ Len(test_cases) <= 1
                 /\ Len(responses) <= 1
                 /\ Len(TestResults) <= 1
                 /\ Len(TestResults) = 1 =>
                        /\ results.single_test_number = N
                        /\ results.total_tests = 1
                        /\ TestResults[1].expected_result = loaded[N]["expected_result"]
                        /\ TestResults[1].tests_run[1].content
                               = ContentSummary(NewTestCase(loaded[N]).val)

\* C20: every request sent to the guardrail has source OUTPUT.  For a test
\* case with question and answer its content has two items, the question
\* qualified query and then the answer qualified guard_content; for a test
\* case with an answer only, or a question only, it has one item without
\* qualifiers.
C20_RequestSourceAndContent ==
    /\ Len(requests) = Len(WithContent(Len(responses)))
    /\ \A j \in 1..Len(requests) :
           LET test_case == test_cases[WithContent(Len(responses))[j]]
               content == requests[j].content
           IN  /\ requests[j].source = "OUTPUT"
               /\ (~Falsy(test_case.question) /\ ~Falsy(test_case.answer)) =>
                      /\ Len(content) = 2
                      /\ content[1] = [text |-> [text |-> test_case.question,
                                                 qualifiers |-> <<"query">>]]
                      /\ content[2] = [text |-> [text |-> test_case.answer,
                                                 qualifiers |-> <<"guard_content">>]]
               /\ (Falsy(test_case.question) /\ ~Falsy(test_case.answer)) =>
                      /\ Len(content) = 1
                      /\ DOMAIN content[1].text = {"text"}
                      /\ content[1].text.text = test_case.answer
               /\ (~Falsy(test_case.question) /\ Falsy(test_case.answer)) =>
                      /\ Len(content) = 1
                      /\ DOMAIN content[1].text = {"text"}
                      /\ content[1].text.text = test_case.question

\* a test case with question and answer and one with an answer only: the
\* first request has the two qualified items, the second one item
C20_Witness ==
    /\ Len(requests) = 2
    /\ Len(test_cases) = 2
    /\ test_cases[1].question = "Q"
    /\ test_cases[1].answer = "A"
    /\ test_cases[2].question = None
    /\ test_cases[2].answer = "A"
    /\ Len(requests[1].content) = 2
    /\ requests[1].content[1].text.qualifiers = <<"query">>
    /\ requests[1].content[2].text.qualifiers = <<"guard_content">>
    /\ requests[2].content = << [text |-> [text |-> "A"]] >>
    /\ requests[2].source = "OUTPUT"

-----------------------------------------------------------------------------
(* Properties of the OpenAI demo, checked under SpecChat *)

\* a turn is being processed: between the input of its message and the end
\* of process_response
InTurn ==
    pc \in {"chat: load policy", "chat: input guardrail", "chat: invoke model",
            "chat: output guardrail", "session: process_response"}

\* chat_with_model has returned and process_response has not run yet
ChatReturned == pc = "session: process_response"

\* the guardrail response r has the action GUARDRAIL_INTERVENED
Intervened(r) == "action" \in DOMAIN r /\ r["action"] = "GUARDRAIL_INTERVENED"

\* the remote call of an event returned, and what it returned
CallReturned(e) == e.returned.exc = NoExc

\* the guardrail call of an event failed with ClientError
GuardrailFailed(e) ==
    /\ e.op = "apply_guardrail"
    /\ CallReturned(e)
    /\ DOMAIN e.returned.val = {"error"}

\* C21: the steps of a turn of chat_with_model are strictly ordered.  The
\* first remote call is the input guardrail on the user message alone; with
\* the action GUARDRAIL_INTERVENED the turn returns blocked at stage input
\* and neither the model nor the output guardrail is called; otherwise the
\* model is called, and only after it has returned the output guardrail is
\* called with the user message and the model's answer; a turn is reported
\* not blocked only if neither guardrail response has the action
\* GUARDRAIL_INTERVENED.
C21_TurnStepsInOrder ==
    InTurn =>
        /\ Len(events) <= 3
        /\ pc \in {"chat: load policy", "chat: input guardrail"} => events = <<>>
        /\ pc = "chat: invoke model" => Len(events) = 1
        /\ pc = "chat: output guardrail" => Len(events) = 2
        /\ Len(events) >= 1 =>
               /\ events[1].op = "apply_guardrail"
               /\ events[1].question = user_message
               /\ events[1].answer = None
        /\ Len(events) >= 2 =>
               /\ events[2].op = "chat.completions.create"
               /\ CallReturned(events[1])
               /\ ~Intervened(events[1].returned.val)
        /\ Len(events) = 3 =>
               /\ events[3].op = "apply_guardrail"
               /\ CallReturned(events[2])
               /\ events[3].question = user_message
               /\ events[3].answer = events[2].returned.val.content
        /\ ChatReturned =>
               /\ events = <<>> => "error" \in DOMAIN chat_response
               /\ (Len(events) >= 1 /\ CallReturned(events[1])) =>
                      IF Intervened(events[1].returned.val)
                      THEN /\ Len(events) = 1
                           /\ chat_response =
                                  [blocked |-> TRUE, stage |-> "input",
                                   guardrail_response |-> events[1].returned.val,
                                   message |-> user_message]
                      ELSE Len(events) >= 2
               /\ (Len(events) >= 2 /\ CallReturned(events[2])) => Len(events) = 3
               /\ ("blocked" \in DOMAIN chat_response /\ ~chat_response.blocked) =>
                      /\ Len(events) = 3
                      /\ CallReturned(events[3])
                      /\ ~Intervened(events[1].returned.val)
                      /\ ~Intervened(events[3].returned.val)
                      /\ chat_response.input_guardrail_response = events[1].returned.val
                      /\ chat_response.output_guardrail_response = events[3].returned.val

\* a turn that was not blocked: the input guardrail on Q1, then the model,
\* then the output guardrail on Q1 and the answer A1
C21_Witness ==
    /\ ChatReturned
    /\ user_message = "Q1"
    /\ Len(events) = 3
    /\ events[1].op = "apply_guardrail"
    /\ events[1].answer = None
    /\ events[2].op = "chat.completions.create"
    /\ events[3].op = "apply_guardrail"
    /\ events[3].question = "Q1"
    /\ events[3].answer = "A1"
    /\ "blocked" \in DOMAIN chat_response
    /\ ~chat_response.blocked
    /\ chat_response.message = "A1"

\* what a processed turn adds to the conversation history
Stored(turn) ==
    IF "error" \in DOMAIN turn.response THEN <<>>
    ELSE IF turn.response.blocked
    THEN << [role |-> "user", content |-> turn.user_message] >>
    ELSE << [role |-> "user", content |-> turn.user_message],
            [role |-> "assistant", content |-> turn.response.message] >>

\* the length of the history when turn i was processed
StoredBefore(i) == Len(Flatten([k \in 1..(i - 1) |-> Stored(turns[k])]))

\* C22: a guardrail call that fails with ClientError never blocks a turn.  It
\* returns a response with the key error alone; after a failed input check
\* the model is called all the same; after a failed output check the turn is
\* not blocked, and process_response stores its assistant message in the
\* conversation history.
C22_FailedGuardrailNeverBlocks ==
    /\ InTurn =>
           /\ \A k \in 1..Len(events) :
                  (events[k].op = "apply_guardrail" /\ CallReturned(events[k])
                       /\ "error" \in DOMAIN events[k].returned.val) =>
                      "action" \notin DOMAIN events[k].returned.val
           /\ (ChatReturned /\ Len(events) >= 1 /\ GuardrailFailed(events[1])) =>
                  /\ Len(events) >= 2
                  /\ events[2].op = "chat.completions.create"
           /\ (ChatReturned /\ Len(events) = 3 /\ GuardrailFailed(events[3])) =>
                  /\ chat_response.blocked = FALSE
                  /\ chat_response.message = events[2].returned.val.content
                  /\ "error" \notin DOMAIN chat_response
           /\ (ChatReturned /\ "blocked" \in DOMAIN chat_response
                   /\ chat_response.blocked) =>
                  chat_response.guardrail_response["action"] = "GUARDRAIL_INTERVENED"
    /\ \A i \in 1..Len(turns) :
           LET resp == turns[i].response
           IN  ("output_guardrail_response" \in DOMAIN resp
                    /\ DOMAIN resp.output_guardrail_response = {"error"}) =>
                   /\ resp.blocked = FALSE
                   /\ Len(conversation_history) >= StoredBefore(i) + 2
                   /\ conversation_history[StoredBefore(i) + 2] =
                          [role |-> "assistant", content |-> resp.message]

\* both guardrail calls of a turn failed: the model was called, the turn was
\* not blocked and the answer A1 is the last message of the history
C22_Witness ==
    /\ pc = "session: input"
    /\ Len(turns) = 1
    /\ Len(events) = 3
    /\ GuardrailFailed(events[1])
    /\ GuardrailFailed(events[3])
    /\ "blocked" \in DOMAIN turns[1].response
    /\ turns[1].response.blocked = FALSE
    /\ turns[1].response.input_guardrail_response = [error |-> "ClientError"]
    /\ turns[1].response.output_guardrail_response = [error |-> "ClientError"]
    /\ conversation_history =
           << [role |-> "user", content |-> "Q1"],
              [role |-> "assistant", content |-> "A1"] >>

\* the history holds what the processed turns stored, and nothing else
HistoryOfTurns ==
    conversation_history = Flatten([k \in 1..Len(turns) |-> Stored(turns[k])])

\* C23: process_response leaves the conversation history as it is for an
\* error response; for any other response it appends the user message, and
\* after it the assistant message exactly when the response is not blocked.
\* Over any sequence of turns the messages with role assistant are the
\* messages of the turns that were not blocked, none of a blocked turn.
C23_BlockedNeverStoredAsAssistant ==
    [][ /\ (pc = "session: process_response" /\ pc' # pc) =>
               LET before == conversation_history
                   after == conversation_history'
                   n == Len(conversation_history)
               IN  IF "error" \in DOMAIN chat_response THEN after = before
                   ELSE /\ Len(after) \in {n + 1, n + 2}
                        /\ SubSeq(after, 1, n) = before
                        /\ after[n + 1] = [role |-> "user", content |-> user_message]
                        /\ (Len(after) = n + 2) <=> ~chat_response.blocked
                        /\ Len(after) = n + 2 =>
                               after[n + 2] = [role |-> "assistant",
                                               content |-> chat_response.message]
        /\ HistoryOfTurns'
        /\ Len(SelectSeq(conversation_history', LAMBDA m : m.role = "assistant"))
               = Len(SelectSeq(turns', LAMBDA t : /\ "error" \notin DOMAIN t.response
                                                   /\ ~t.response.blocked))
      ]_vars

\* the answer A1 was blocked at the output, the answer A2 of the next turn was
\* not: the history holds the two user messages and A2
C23_Witness ==
    /\ pc = "session: input"
    /\ Len(turns) = 2
    /\ "stage" \in DOMAIN turns[1].response
    /\ turns[1].response.stage = "output"
    /\ turns[1].response.message = "A1"
    /\ "blocked" \in DOMAIN turns[2].response
    /\ turns[2].response.blocked = FALSE
    /\ turns[2].response.message = "A2"
    /\ conversation_history =
           << [role |-> "user", content |-> "Q1"],
              [role |-> "user", content |-> "Q2"],
              [role |-> "assistant", content |-> "A2"] >>

=============================================================================
